---------------------------- MODULE Spec2Model ----------------------------
(***************************************************************************)
(* Model of the seamless-agent extension: the ask_user tool adapter        *)
(* (tools.ts), the AgentInteractionProvider broker (webviewProvider.ts)    *)
(* and the Agent Console webview script (webview/main.ts).                 *)
(*                                                                         *)
(* Everything runs on one cooperative task queue, so each handler is one   *)
(* atomic action; the only suspension points are the awaits of the tool    *)
(* adapter, which are the values of pc.  The extension host and the        *)
(* webview are separate processes that talk through postMessage, modelled  *)
(* by one FIFO queue per direction and per view.                           *)
(*                                                                         *)
(* A text is a sequence of symbols.  Each fixed diagnostic string of the   *)
(* program is written as one non-blank symbol.                             *)
(***************************************************************************)
EXTENDS Integers, Sequences, FiniteSets, TLC

\* ------------------------------------------------------------------ bounds
MaxCallers == 2      \* tool invocations made by the agent runtime
MaxViews   == 2      \* webview views the host creates over the run
MaxClears  == 2      \* clear() pushes waiting in one queue at a time

Callers == 1..MaxCallers
Views   == 1..MaxViews

\* ------------------------------------------------------------------- texts
Blank == " "

IsBlank(ch) == ch = Blank

RECURSIVE TrimStart(_)
TrimStart(s) ==
    IF s = <<>> THEN <<>>
    ELSE IF IsBlank(Head(s)) THEN TrimStart(Tail(s)) ELSE s

RECURSIVE TrimEnd(_)
TrimEnd(s) ==
    IF s = <<>> THEN <<>>
    ELSE IF IsBlank(s[Len(s)]) THEN TrimEnd(SubSeq(s, 1, Len(s) - 1)) ELSE s

\* String.prototype.trim
Trim(s) == TrimEnd(TrimStart(s))

NotAvailableText == <<"Agent Console view is not available.">>
BusyText         == <<"Another request is already pending.">>
ViewClosedText   == <<"View was closed">>

\* the two symbols JSON.stringify escapes in the texts of this model
Quote     == "\""
Backslash == "\\"

\* what the human may type into the textarea or the input box
UserTexts ==
    { <<>>, <<Blank>>, <<Blank, Quote, Backslash, Blank>>, NotAvailableText }

\* what showInputBox may resolve to: undefined when the human dismisses it
InputBoxResults ==
    { [defined |-> FALSE, value |-> <<>>] } \cup
    { [defined |-> TRUE, value |-> t] : t \in UserTexts }

\* response before showInputBox was called
NotAsked == [asked |-> FALSE]

\* ---------------------------------------------------------------- outcomes
Outcome(responded, response) == [responded |-> responded, response |-> response]

NoResult == [none |-> TRUE]

\* the tool result of an invocation that has not returned
NoPayload == <<>>

\* no ask was accepted yet
NoAsk == [view |-> 0, question |-> ""]

NotAvailableOutcome == Outcome(FALSE, NotAvailableText)
BusyOutcome         == Outcome(FALSE, BusyText)
ViewClosedOutcome   == Outcome(FALSE, ViewClosedText)

\* ------------------------------------------------------------ localization
\* localize(key): the bundle's entry, or the key itself when it has none
Localize(key) == key

ConfirmationRequired == Localize("notification.confirmationRequired")

\* showWarningMessage resolves to the button's text or to undefined
ButtonText  == Localize("button.respond")
NoSelection == "undefined"
Unset       == "unset"

\* ------------------------------------------------------------ tool inputs
\* "" stands for an absent optional parameter (|| treats both alike)
Inputs ==
    { [question |-> "Q1", title |-> "",  agentName |-> ""],
      [question |-> "Q2", title |-> "T", agentName |-> "Bot"] }

\* invoke, step 1: the title shown with the question
ToolTitle(in) ==
    (IF in.agentName = "" THEN "Agent" ELSE in.agentName) \o ": " \o
    (IF in.title = "" THEN ConfirmationRequired ELSE in.title)

\* ---------------------------------------------------------------- messages
ShowQuestionMsg(question, title) ==
    [type |-> "showQuestion", question |-> question, title |-> title]
ClearMsg == [type |-> "clear"]
SubmitMsg(response) == [type |-> "submit", response |-> response]
CancelMsg == [type |-> "cancel"]

\* ------------------------------------------------------------------- state
VARIABLES
    view,            \* provider._view: 0 is undefined, else the view's id
    pendingRequest,  \* provider._pendingRequest: 0 is null, else the caller
                     \* whose promise the stored resolve callback settles
    viewState,       \* host: "unresolved", "live" or "disposed", per view
    badge,           \* WebviewView.badge per view: 0 is undefined
    toWebview,       \* messages posted to each webview, not yet handled
    fromWebview,     \* messages posted by each webview, not yet handled
    formHidden,      \* #request-form has class hidden, per webview
    emptyHidden,     \* #empty-state has class hidden, per webview
    inputValue,      \* #response-input value, per webview
    notifications,   \* information messages raised by _showNotification
    pc,              \* where each tool invocation is
    brokerResult,    \* askViaWebview's local result, per invocation
    result,          \* invoke's local result, per invocation
    payload,         \* the text part of the tool result each invocation returned
    resolveCalls,    \* times each invocation's resolve callback was called
    fallbackCalls,   \* times each invocation called askViaVSCode
    selection,       \* askViaVSCode's local selection, per invocation
    boxResponse,     \* askViaVSCode's local response, per invocation
    cancellationRequested, \* token.isCancellationRequested, per invocation
    acceptCalls,     \* what the promise executor of the ask accepted last did,
                     \* in the order it did it
    acceptedAsk,     \* the view and the question of the ask accepted last
    questionContent  \* #question-content innerHTML, per webview

providerVars == <<view, pendingRequest, notifications>>
hostVars     == <<viewState, badge, toWebview, fromWebview>>
webviewVars  == <<formHidden, emptyHidden, inputValue, questionContent>>
fallbackVars == <<selection, boxResponse>>
callerVars   == <<pc, brokerResult, result, payload, resolveCalls, fallbackCalls,
                  selection, boxResponse>>

vars == <<view, pendingRequest, viewState, badge, toWebview, fromWebview,
          formHidden, emptyHidden, inputValue, notifications,
          pc, brokerResult, result, payload, resolveCalls, fallbackCalls,
          selection, boxResponse, cancellationRequested, acceptCalls,
          acceptedAsk, questionContent>>

Init ==
    /\ view = 0
    /\ pendingRequest = 0
    /\ viewState = [v \in Views |-> "unresolved"]
    /\ badge = [v \in Views |-> 0]
    /\ toWebview = [v \in Views |-> <<>>]
    /\ fromWebview = [v \in Views |-> <<>>]
    /\ formHidden = [v \in Views |-> TRUE]
    /\ emptyHidden = [v \in Views |-> FALSE]
    /\ inputValue = [v \in Views |-> <<>>]
    /\ notifications = 0
    /\ pc = [c \in Callers |-> "idle"]
    /\ brokerResult = [c \in Callers |-> NoResult]
    /\ result = [c \in Callers |-> NoResult]
    /\ payload = [c \in Callers |-> NoPayload]
    /\ resolveCalls = [c \in Callers |-> 0]
    /\ fallbackCalls = [c \in Callers |-> 0]
    /\ selection = [c \in Callers |-> Unset]
    /\ boxResponse = [c \in Callers |-> NotAsked]
    /\ cancellationRequested = [c \in Callers |-> FALSE]
    /\ acceptCalls = <<>>
    /\ acceptedAsk = NoAsk
    /\ questionContent = [v \in Views |-> ""]


\* ------------------------------------------------------------------- JSON
RECURSIVE JsonEscape(_)
\* the characters of a JSON string literal for text t
JsonEscape(t) ==
    IF t = <<>> THEN <<>>
    ELSE IF Head(t) \in {Quote, Backslash}
         THEN <<Backslash, Head(t)>> \o JsonEscape(Tail(t))
         ELSE <<Head(t)>> \o JsonEscape(Tail(t))

\* a string literal written without escaping
JsonStringRaw(t) == <<Quote>> \o t \o <<Quote>>

\* JSON.stringify of a string
JsonString(t) == <<Quote>> \o JsonEscape(t) \o <<Quote>>

\* JSON.stringify of a boolean
JsonBool(b) == IF b THEN "true" ELSE "false"

\* JSON.stringify({responded: ..., response: ...}): the property names are
\* one symbol each, as the diagnostic texts are
JsonStringify(r) ==
    <<"{">> \o JsonString(<<"responded">>) \o <<":", JsonBool(r.responded), ",">>
            \o JsonString(<<"response">>) \o <<":">> \o JsonString(r.response)
            \o <<"}">>

\* the LanguageModelTextPart invoke returns for askViaWebview's result
ToolResult(r) == JsonStringify([responded |-> r.responded, response |-> r.response])

\* symbol i of s, or "eof" past its end
At(s, i) == IF i \in 1..Len(s) THEN s[i] ELSE "eof"

RECURSIVE ReadChars(_, _)
\* reads the characters of a string literal of s from position i, after its
\* opening quote, up to its closing quote
ReadChars(s, i) ==
    IF i > Len(s) THEN [ok |-> FALSE, value |-> <<>>, next |-> i]
    ELSE IF s[i] = Quote THEN [ok |-> TRUE, value |-> <<>>, next |-> i + 1]
    ELSE IF s[i] = Backslash
         THEN IF At(s, i + 1) \in {Quote, Backslash}
              THEN LET r == ReadChars(s, i + 2)
                   IN  [r EXCEPT !.value = <<s[i + 1]>> \o @]
              ELSE [ok |-> FALSE, value |-> <<>>, next |-> i]
         ELSE LET r == ReadChars(s, i + 1)
              IN  [r EXCEPT !.value = <<s[i]>> \o @]

\* reads a string literal of s at position i
ReadString(s, i) ==
    IF At(s, i) = Quote THEN ReadChars(s, i + 1)
    ELSE [ok |-> FALSE, value |-> <<>>, next |-> i]

\* JSON.parse of an object of two members, a boolean and then a string:
\* the names of its members and their values, or ok = FALSE
JsonParse(s) ==
    LET k1 == ReadString(s, 2)
        b  == At(s, k1.next + 1)
        k2 == ReadString(s, k1.next + 3)
        v2 == ReadString(s, k2.next + 1)
    IN  IF /\ At(s, 1) = "{"
           /\ k1.ok /\ At(s, k1.next) = ":"
           /\ b \in {"true", "false"} /\ At(s, k1.next + 2) = ","
           /\ k2.ok /\ At(s, k2.next) = ":"
           /\ v2.ok /\ At(s, v2.next) = "}" /\ Len(s) = v2.next
        THEN [ok |-> TRUE, names |-> <<k1.value, k2.value>>,
              first |-> (b = "true"), second |-> v2.value]
        ELSE [ok |-> FALSE, names |-> <<>>, first |-> FALSE, second |-> <<>>]

\* ------------------------------------------------------------ tool adapter
\* askViaWebview's test without its responded check
IsUnavailableAnyOutcome(r) == r.response = NotAvailableText

\* askViaWebview: the test that sends an invocation to the fallback prompt
IsUnavailable(r) == ~r.responded /\ r.response = NotAvailableText

\* askViaWebview after provider.waitForUserResponse gave r to invocation c:
\* either askViaVSCode starts (and awaits the focus command) or r is returned
Resume(c, r) ==
    /\ brokerResult' = [brokerResult EXCEPT ![c] = r]
    /\ IF IsUnavailable(r)
       THEN /\ pc' = [pc EXCEPT ![c] = "focus"]
            /\ fallbackCalls' = [fallbackCalls EXCEPT ![c] = @ + 1]
            /\ result' = result
            /\ payload' = payload
       ELSE /\ pc' = [pc EXCEPT ![c] = "done"]
            /\ result' = [result EXCEPT ![c] = r]
            /\ payload' = [payload EXCEPT ![c] = ToolResult(result'[c])]
            /\ fallbackCalls' = fallbackCalls

\* ------------------------------------------------------------------ broker
\* this._view?.webview.postMessage(m): a disposed webview takes no message
PostMessage(m) ==
    IF view # 0 /\ viewState[view] = "live"
    THEN [toWebview EXCEPT ![view] = Append(@, m)]
    ELSE toWebview

\* _setBadge that only ever shows a badge
SetBadgeNeverClears(count) ==
    IF view # 0 /\ count > 0
    THEN [badge EXCEPT ![view] = count]
    ELSE badge

\* _setBadge(count): the new badge of every view
SetBadge(count) ==
    IF view # 0
    THEN [badge EXCEPT ![view] = IF count > 0 THEN count ELSE 0]
    ELSE badge

\* waitForUserResponse without its first guard
SlotOccupiedNever == FALSE

\* the two guards of waitForUserResponse
SlotOccupied == pendingRequest # 0
ViewMissing  == view = 0

\* the outcomes the handlers hand to _resolvePendingRequest

\* a submit handler that reports an empty payload as not responded
SubmitOutcomeNonEmpty(message) == Outcome(message.response # <<>>, message.response)

SubmitOutcome(message) == Outcome(TRUE, message.response)
CancelOutcome          == Outcome(FALSE, <<>>)

\* a dispose handler that reports a plain cancel
DisposeOutcomeAsCancel == CancelOutcome

DisposeOutcome         == ViewClosedOutcome

\* a _resolvePendingRequest that keeps the resolver in the slot
ResolvePendingRequestKeepsSlot(r) ==
    IF pendingRequest # 0
    THEN /\ resolveCalls' = [resolveCalls EXCEPT ![pendingRequest] = @ + 1]
         /\ Resume(pendingRequest, r)
         /\ badge' = SetBadge(0)
         /\ UNCHANGED pendingRequest
    ELSE UNCHANGED <<pendingRequest, badge, pc, brokerResult, result, payload,
                     fallbackCalls, resolveCalls>>

\* _resolvePendingRequest(r)
ResolvePendingRequest(r) ==
    IF pendingRequest # 0
    THEN /\ resolveCalls' = [resolveCalls EXCEPT ![pendingRequest] = @ + 1]
         /\ Resume(pendingRequest, r)
         /\ pendingRequest' = 0
         /\ badge' = SetBadge(0)
    ELSE UNCHANGED <<pendingRequest, badge, pc, brokerResult, result, payload,
                     fallbackCalls, resolveCalls>>

\* a busy rejection that also takes the badge down
RejectBusyClearsBadge(c) ==
    /\ Resume(c, BusyOutcome)
    /\ badge' = SetBadge(0)
    /\ UNCHANGED <<pendingRequest, toWebview, notifications>>

\* a busy rejection that evicts the pending request
RejectBusyEvicts(c) ==
    /\ Resume(c, BusyOutcome)
    /\ pendingRequest' = 0
    /\ UNCHANGED <<toWebview, badge, notifications>>

\* waitForUserResponse with the slot occupied: the new caller is turned away
RejectBusy(c) ==
    /\ Resume(c, BusyOutcome)
    /\ UNCHANGED <<pendingRequest, toWebview, badge, notifications>>

\* a promise executor that raises the notification before anything else
AcceptCallsNotifyFirst ==
    <<"showInformationMessage", "_pendingRequest = { resolve }",
      "postMessage showQuestion", "_setBadge(1)", "show(preserveFocus)">>

\* the statements of waitForUserResponse's promise executor, in order
AcceptCalls ==
    <<"_pendingRequest = { resolve }", "postMessage showQuestion",
      "_setBadge(1)", "show(preserveFocus)", "showInformationMessage">>

\* the ask_user tool is invoked with parameters in: invoke, askViaWebview and
\* waitForUserResponse up to the first await that does not settle at once
\* (invocations are numbered in the order they start)
Invoke(c, in) ==
    /\ pc[c] = "idle"
    /\ \A d \in Callers : d < c => pc[d] # "idle"
    /\ (SlotOccupied \/ ViewMissing) => UNCHANGED <<acceptCalls, acceptedAsk>>
    /\ IF SlotOccupied
       THEN RejectBusy(c)
       ELSE IF ViewMissing
       THEN /\ Resume(c, NotAvailableOutcome)
            /\ UNCHANGED <<pendingRequest, toWebview, badge, notifications>>
       ELSE /\ acceptCalls' = AcceptCalls
            /\ acceptedAsk' = [view |-> view, question |-> in.question]
            /\ pendingRequest' = c
            /\ toWebview' = PostMessage(ShowQuestionMsg(in.question,
                   IF ToolTitle(in) = "" THEN ConfirmationRequired
                   ELSE ToolTitle(in)))
            /\ badge' = SetBadge(1)
            /\ notifications' = notifications + 1
            /\ pc' = [pc EXCEPT ![c] = "suspended"]
            /\ UNCHANGED <<brokerResult, result, payload, fallbackCalls>>
    /\ UNCHANGED <<view, viewState, fromWebview, resolveCalls>>
    /\ UNCHANGED webviewVars
    /\ UNCHANGED fallbackVars
    /\ UNCHANGED cancellationRequested

\* provider.clear(), with a live view to push to
Clear ==
    /\ view # 0 /\ viewState[view] = "live"
    /\ Len(SelectSeq(toWebview[view], LAMBDA m : m.type = "clear")) < MaxClears
    /\ toWebview' = PostMessage(ClearMsg)
    /\ UNCHANGED <<view, pendingRequest, notifications, viewState, badge,
                   fromWebview>>
    /\ UNCHANGED webviewVars
    /\ UNCHANGED callerVars
    /\ UNCHANGED cancellationRequested
    /\ UNCHANGED <<acceptCalls, acceptedAsk>>

\* -------------------------------------------------------------------- host
\* a resolveWebviewView that drops the request pending on the old view
ResolveWebviewViewDropsRequest(v) ==
    /\ viewState[v] = "unresolved"
    /\ \A w \in Views : viewState[w] # "live"
    /\ \A w \in Views : w < v => viewState[w] # "unresolved"
    /\ view' = v
    /\ viewState' = [viewState EXCEPT ![v] = "live"]
    /\ pendingRequest' = 0
    /\ UNCHANGED <<notifications, badge, toWebview, fromWebview>>
    /\ UNCHANGED webviewVars
    /\ UNCHANGED callerVars
    /\ UNCHANGED cancellationRequested
    /\ UNCHANGED <<acceptCalls, acceptedAsk>>

\* the host creates the view and calls resolveWebviewView; it keeps one view
\* of this type, so it does so only while none is live
ResolveWebviewView(v) ==
    /\ viewState[v] = "unresolved"
    /\ \A w \in Views : viewState[w] # "live"
    /\ \A w \in Views : w < v => viewState[w] # "unresolved"
    /\ view' = v
    /\ viewState' = [viewState EXCEPT ![v] = "live"]
    /\ UNCHANGED <<pendingRequest, notifications, badge, toWebview,
                   fromWebview>>
    /\ UNCHANGED webviewVars
    /\ UNCHANGED callerVars
    /\ UNCHANGED cancellationRequested
    /\ UNCHANGED <<acceptCalls, acceptedAsk>>

\* the host disposes view v: its webview is gone, with its document and the
\* messages still in flight, and the onDidDispose handler runs
DisposeView(v) ==
    /\ viewState[v] = "live"
    /\ viewState' = [viewState EXCEPT ![v] = "disposed"]
    /\ toWebview' = [toWebview EXCEPT ![v] = <<>>]
    /\ fromWebview' = [fromWebview EXCEPT ![v] = <<>>]
    /\ formHidden' = [formHidden EXCEPT ![v] = TRUE]
    /\ emptyHidden' = [emptyHidden EXCEPT ![v] = FALSE]
    /\ inputValue' = [inputValue EXCEPT ![v] = <<>>]
    /\ questionContent' = [questionContent EXCEPT ![v] = ""]
    /\ ResolvePendingRequest(DisposeOutcome)
    /\ UNCHANGED <<view, notifications>>
    /\ UNCHANGED fallbackVars
    /\ UNCHANGED cancellationRequested
    /\ UNCHANGED <<acceptCalls, acceptedAsk>>

\* _handleWebviewMessage(message)
HandleWebviewMessage(message) ==
    IF message.type = "submit" THEN ResolvePendingRequest(SubmitOutcome(message))
    ELSE IF message.type = "cancel" THEN ResolvePendingRequest(CancelOutcome)
    ELSE UNCHANGED <<pendingRequest, badge, pc, brokerResult, result, payload,
                     fallbackCalls, resolveCalls>>

\* onDidReceiveMessage fires for the oldest message of webview v
HostReceive(v) ==
    /\ viewState[v] = "live"
    /\ fromWebview[v] # <<>>
    /\ fromWebview' = [fromWebview EXCEPT ![v] = Tail(@)]
    /\ HandleWebviewMessage(Head(fromWebview[v]))
    /\ UNCHANGED <<view, notifications, viewState, toWebview>>
    /\ UNCHANGED webviewVars
    /\ UNCHANGED fallbackVars
    /\ UNCHANGED cancellationRequested
    /\ UNCHANGED <<acceptCalls, acceptedAsk>>

\* ----------------------------------------------------------------- webview
\* handleSubmit: the response it posts for the textarea's value
SubmitResponse(value) == Trim(value)

\* renderMarkdown(content), for a question of one plain paragraph
RenderMarkdown(content) ==
    IF content = "" THEN "" ELSE "<p>" \o content \o "</p>"

\* a clearForm that empties the textarea and leaves the form shown
ClearFormKeepsForm(v) ==
    /\ inputValue' = [inputValue EXCEPT ![v] = <<>>]
    /\ UNCHANGED <<formHidden, emptyHidden>>
    /\ UNCHANGED questionContent

\* a clearForm that toggles the empty state instead of showing it
ClearFormTogglesEmpty(v) ==
    /\ formHidden' = [formHidden EXCEPT ![v] = TRUE]
    /\ emptyHidden' = [emptyHidden EXCEPT ![v] = ~@]
    /\ inputValue' = [inputValue EXCEPT ![v] = <<>>]
    /\ UNCHANGED questionContent

\* clearForm() in webview v
ClearForm(v) ==
    /\ formHidden' = [formHidden EXCEPT ![v] = TRUE]
    /\ emptyHidden' = [emptyHidden EXCEPT ![v] = FALSE]
    /\ inputValue' = [inputValue EXCEPT ![v] = <<>>]
    /\ UNCHANGED questionContent

\* the window message listener handles the oldest pushed message:
\* showQuestion(question, title) or clearForm()
WebviewReceive(v) ==
    /\ viewState[v] = "live"
    /\ toWebview[v] # <<>>
    /\ toWebview' = [toWebview EXCEPT ![v] = Tail(@)]
    /\ LET message == Head(toWebview[v]) IN
       IF message.type = "showQuestion"
       THEN /\ questionContent' = [questionContent EXCEPT
                                       ![v] = RenderMarkdown(message.question)]
            /\ inputValue' = [inputValue EXCEPT ![v] = <<>>]
            /\ emptyHidden' = [emptyHidden EXCEPT ![v] = TRUE]
            /\ formHidden' = [formHidden EXCEPT ![v] = FALSE]
       ELSE ClearForm(v)
    /\ UNCHANGED <<view, pendingRequest, notifications, viewState, badge,
                   fromWebview>>
    /\ UNCHANGED callerVars
    /\ UNCHANGED cancellationRequested
    /\ UNCHANGED <<acceptCalls, acceptedAsk>>

\* the human edits the textarea of the visible form
UserType(v, t) ==
    /\ viewState[v] = "live"
    /\ ~formHidden[v]
    /\ inputValue[v] # t
    /\ inputValue' = [inputValue EXCEPT ![v] = t]
    /\ UNCHANGED <<formHidden, emptyHidden, questionContent>>
    /\ UNCHANGED providerVars
    /\ UNCHANGED hostVars
    /\ UNCHANGED callerVars
    /\ UNCHANGED cancellationRequested
    /\ UNCHANGED <<acceptCalls, acceptedAsk>>

\* click on Submit or Ctrl+Enter: handleSubmit, then clearForm
ClickSubmit(v) ==
    /\ viewState[v] = "live"
    /\ ~formHidden[v]
    /\ fromWebview' = [fromWebview EXCEPT
                         ![v] = Append(@, SubmitMsg(SubmitResponse(inputValue[v])))]
    /\ ClearForm(v)
    /\ UNCHANGED <<viewState, badge, toWebview>>
    /\ UNCHANGED providerVars
    /\ UNCHANGED callerVars
    /\ UNCHANGED cancellationRequested
    /\ UNCHANGED <<acceptCalls, acceptedAsk>>

\* click on Cancel: handleCancel, then clearForm
ClickCancel(v) ==
    /\ viewState[v] = "live"
    /\ ~formHidden[v]
    /\ fromWebview' = [fromWebview EXCEPT ![v] = Append(@, CancelMsg)]
    /\ ClearForm(v)
    /\ UNCHANGED <<viewState, badge, toWebview>>
    /\ UNCHANGED providerVars
    /\ UNCHANGED callerVars
    /\ UNCHANGED cancellationRequested
    /\ UNCHANGED <<acceptCalls, acceptedAsk>>

\* --------------------------------------------------------- fallback prompt
\* askViaVSCode: the focus command completes and the warning message shows
FocusDone(c) ==
    /\ pc[c] = "focus"
    /\ pc' = [pc EXCEPT ![c] = "alert"]
    /\ UNCHANGED <<brokerResult, result, payload, resolveCalls, fallbackCalls>>
    /\ UNCHANGED fallbackVars
    /\ UNCHANGED providerVars
    /\ UNCHANGED hostVars
    /\ UNCHANGED webviewVars
    /\ UNCHANGED cancellationRequested
    /\ UNCHANGED <<acceptCalls, acceptedAsk>>

\* showWarningMessage settles: the human pressed the button or dismissed it
AlertRespond(c, pressed) ==
    /\ pc[c] = "alert"
    /\ selection' = [selection EXCEPT
                        ![c] = IF pressed THEN ButtonText ELSE NoSelection]
    /\ boxResponse' = boxResponse
    /\ IF selection'[c] # ButtonText
       THEN /\ pc' = [pc EXCEPT ![c] = "done"]
            /\ result' = [result EXCEPT ![c] = Outcome(FALSE, <<>>)]
            /\ payload' = [payload EXCEPT ![c] = ToolResult(result'[c])]
       ELSE /\ pc' = [pc EXCEPT ![c] = "inputBox"]
            /\ result' = result
            /\ payload' = payload
    /\ UNCHANGED <<brokerResult, resolveCalls, fallbackCalls>>
    /\ UNCHANGED providerVars
    /\ UNCHANGED hostVars
    /\ UNCHANGED webviewVars
    /\ UNCHANGED cancellationRequested
    /\ UNCHANGED <<acceptCalls, acceptedAsk>>

\* an input box step whose responded test is never met
InputBoxOutcomeNeverResponded(response) ==
    IF ~response.defined THEN Outcome(FALSE, <<>>)
    ELSE Outcome(FALSE, response.value)

\* an input box step that returns the trimmed text
InputBoxOutcomeTrimmed(response) ==
    IF ~response.defined THEN Outcome(FALSE, <<>>)
    ELSE Outcome(Len(Trim(response.value)) > 0, Trim(response.value))

\* askViaVSCode: the outcome for what showInputBox resolved to
InputBoxOutcome(response) ==
    IF ~response.defined THEN Outcome(FALSE, <<>>)
    ELSE Outcome(Len(Trim(response.value)) > 0, response.value)

\* showInputBox settles with a text or undefined
InputBoxRespond(c, response) ==
    /\ pc[c] = "inputBox"
    /\ pc' = [pc EXCEPT ![c] = "done"]
    /\ boxResponse' = [boxResponse EXCEPT ![c] = response]
    /\ selection' = selection
    /\ result' = [result EXCEPT ![c] = InputBoxOutcome(response)]
    /\ payload' = [payload EXCEPT ![c] = ToolResult(result'[c])]
    /\ UNCHANGED <<brokerResult, resolveCalls, fallbackCalls>>
    /\ UNCHANGED providerVars
    /\ UNCHANGED hostVars
    /\ UNCHANGED webviewVars
    /\ UNCHANGED cancellationRequested
    /\ UNCHANGED <<acceptCalls, acceptedAsk>>

\* the agent runtime cancels the token it passed to invocation c while c
\* waits on the surface; invoke never reads the token
CancelToken(c) ==
    /\ pc[c] = "suspended"
    /\ ~cancellationRequested[c]
    /\ cancellationRequested' = [cancellationRequested EXCEPT ![c] = TRUE]
    /\ UNCHANGED providerVars
    /\ UNCHANGED hostVars
    /\ UNCHANGED webviewVars
    /\ UNCHANGED callerVars
    /\ UNCHANGED <<acceptCalls, acceptedAsk>>

\* ------------------------------------------------------------ specification
Next ==
    \/ \E c \in Callers, in \in Inputs : Invoke(c, in)
    \/ Clear
    \/ \E v \in Views : ResolveWebviewView(v)
    \/ \E v \in Views : DisposeView(v)
    \/ \E v \in Views : HostReceive(v)
    \/ \E v \in Views : WebviewReceive(v)
    \/ \E v \in Views, t \in UserTexts : UserType(v, t)
    \/ \E v \in Views : ClickSubmit(v)
    \/ \E v \in Views : ClickCancel(v)
    \/ \E c \in Callers : FocusDone(c)
    \/ \E c \in Callers, pressed \in BOOLEAN : AlertRespond(c, pressed)
    \/ \E c \in Callers, r \in InputBoxResults : InputBoxRespond(c, r)
    \/ \E c \in Callers : CancelToken(c)

Spec == Init /\ [][Next]_vars


\* The same program under the scheduling the claims about termination assume:
\* posted messages are delivered, the host's dialogs and commands settle, and
\* the human answers or dismisses a form that is shown.  Nothing obliges the
\* agent to ask, the host to create or dispose a view, or the human to type;
\* clear() has no caller in the program and is left out.
NextLive ==
    \/ \E c \in Callers, in \in Inputs : Invoke(c, in)
    \/ \E v \in Views : ResolveWebviewView(v)
    \/ \E v \in Views : DisposeView(v)
    \/ \E v \in Views : HostReceive(v)
    \/ \E v \in Views : WebviewReceive(v)
    \/ \E v \in Views, t \in UserTexts : UserType(v, t)
    \/ \E v \in Views : ClickSubmit(v)
    \/ \E v \in Views : ClickCancel(v)
    \/ \E c \in Callers : FocusDone(c)
    \/ \E c \in Callers, pressed \in BOOLEAN : AlertRespond(c, pressed)
    \/ \E c \in Callers, r \in InputBoxResults : InputBoxRespond(c, r)
    \/ \E c \in Callers : CancelToken(c)

Fairness ==
    /\ \A v \in Views : WF_vars(HostReceive(v))
    /\ \A v \in Views : WF_vars(WebviewReceive(v))
    /\ \A v \in Views : WF_vars(ClickSubmit(v) \/ ClickCancel(v))
    /\ \A c \in Callers : WF_vars(FocusDone(c))
    /\ \A c \in Callers : WF_vars(\E pressed \in BOOLEAN : AlertRespond(c, pressed))
    /\ \A c \in Callers : WF_vars(\E r \in InputBoxResults : InputBoxRespond(c, r))

LiveSpec == Init /\ [][NextLive]_vars /\ Fairness

\* ---------------------------------------------------------- steps, by name
\* invocation c starts in this step
InvokeStep(c) == pc[c] = "idle" /\ pc'[c] # "idle"

\* the host handles the oldest message of webview v in this step
HostReceiveStep(v) ==
    /\ viewState[v] = "live" /\ viewState'[v] = "live"
    /\ fromWebview[v] # <<>>
    /\ fromWebview'[v] = Tail(fromWebview[v])

\* view v is disposed in this step
DisposeStep(v) == viewState[v] = "live" /\ viewState'[v] = "disposed"

\* the resolve callback of invocation c is called in this step
ResolveStep(c) == resolveCalls'[c] = resolveCalls[c] + 1

\* the outcome the trigger of this step stands for
TriggerOutcome ==
    IF \E v \in Views : DisposeStep(v) THEN ViewClosedOutcome
    ELSE LET v == CHOOSE w \in Views : HostReceiveStep(w)
             message == Head(fromWebview[v])
         IN  IF message.type = "submit"
             THEN Outcome(TRUE, message.response)
             ELSE Outcome(FALSE, <<>>)

Suspended == {c \in Callers : pc[c] = "suspended"}

\* no response surface is attached: the view was never resolved or is disposed
NoSurface == view = 0 \/ viewState[view] # "live"

\* ------------------------------------------------------------------ claims

\* C1: at most one ask is suspended on the surface path at any time, and an
\* ask that starts while the slot is occupied returns the busy outcome at once
\* and is not suspended.
C1_AtMostOneSuspended ==
    /\ [](Cardinality(Suspended) <= 1)
    /\ [][\A c \in Callers :
             (InvokeStep(c) /\ pendingRequest # 0) =>
                 /\ pc'[c] = "done"
                 /\ result'[c] = BusyOutcome
                 /\ brokerResult'[c] = BusyOutcome]_vars

C1_Witness ==
    \E c, d \in Callers :
        /\ pc[c] = "suspended" /\ pendingRequest = c
        /\ pc[d] = "done" /\ result[d] = BusyOutcome

\* C2: every ask that started eventually returns an outcome, whatever the
\* views do, when messages are delivered and the human answers what is shown.
C2_EveryAskResolves ==
    \A c \in Callers : (pc[c] # "idle") ~> (pc[c] = "done")

\* C3: an ask that finds the slot empty and no response surface attached
\* (never resolved, or disposed) gets the surface-unavailable sentinel at once
\* and leaves the slot empty.
C3_NoSurfaceGivesSentinel ==
    [][\A c \in Callers :
          (InvokeStep(c) /\ pendingRequest = 0 /\ NoSurface) =>
              /\ brokerResult'[c] = NotAvailableOutcome
              /\ pendingRequest' = 0]_vars

\* C4: the fallback prompt is invoked exactly for the invocations whose broker
\* outcome is the surface-unavailable sentinel, which only an ask that was
\* never suspended gets; every other broker outcome, a submitted text equal to
\* the sentinel string included, is returned unchanged, and the sentinel
\* itself is never returned.
C4_FallbackIffSentinel ==
    \A c \in Callers :
        /\ brokerResult[c] # NoResult =>
              (fallbackCalls[c] = 1 <=> brokerResult[c] = NotAvailableOutcome)
        /\ brokerResult[c] = NoResult => fallbackCalls[c] = 0
        /\ resolveCalls[c] > 0 => fallbackCalls[c] = 0
        /\ (pc[c] = "done" /\ fallbackCalls[c] = 0) => result[c] = brokerResult[c]
        /\ pc[c] = "done" => result[c] # NotAvailableOutcome
        /\ fallbackCalls[c] = 1 => pc[c] \in {"focus", "alert", "inputBox", "done"}

C4_Witness ==
    \E c, d \in Callers :
        /\ pc[c] = "done" /\ resolveCalls[c] = 1
        /\ result[c] = Outcome(TRUE, NotAvailableText)
        /\ pc[d] = "done" /\ fallbackCalls[d] = 1

\* C5: when the host handles a submit with payload t while a request is
\* pending, the pending caller returns {responded: true, response: t}; when it
\* handles a cancel, the pending caller returns {responded: false, response: ""}.
C5_SubmitAndCancelOutcomes ==
    [][\A v \in Views :
          (HostReceiveStep(v) /\ pendingRequest # 0) =>
              LET message == Head(fromWebview[v])
                  c == pendingRequest
              IN  /\ pc'[c] = "done"
                  /\ message.type = "submit" =>
                        result'[c] = [responded |-> TRUE,
                                      response |-> message.response]
                  /\ message.type = "cancel" =>
                        result'[c] = [responded |-> FALSE, response |-> <<>>]]_vars

C5_Witness ==
    \E c, d \in Callers :
        /\ pc[c] = "done" /\ resolveCalls[c] = 1
        /\ result[c] = [responded |-> TRUE, response |-> <<Quote, Backslash>>]
        /\ pc[d] = "done" /\ resolveCalls[d] = 1
        /\ result[d] = [responded |-> FALSE, response |-> <<>>]

\* C6: disposing the view while a request is pending makes the pending caller
\* return {false, "View was closed"}; its resolve callback is called once and
\* its outcome never changes afterwards; a disposal with the slot empty changes
\* nothing of the broker and resolves nobody.
C6_DisposeResolvesOnce ==
    /\ [](\A c \in Callers : resolveCalls[c] <= 1)
    /\ [][\A v \in Views : DisposeStep(v) =>
             IF pendingRequest # 0
             THEN LET c == pendingRequest
                  IN  /\ pc'[c] = "done"
                      /\ result'[c] = ViewClosedOutcome
                      /\ resolveCalls'[c] = 1
                      /\ pendingRequest' = 0
                      /\ \A d \in Callers \ {c} :
                            /\ resolveCalls'[d] = resolveCalls[d]
                            /\ pc'[d] = pc[d]
                            /\ result'[d] = result[d]
             ELSE UNCHANGED <<view, pendingRequest, badge, notifications,
                              pc, brokerResult, result, resolveCalls,
                              fallbackCalls>>]_vars
    /\ [][\A c \in Callers : pc[c] = "done" => (pc'[c] = "done" /\ result'[c] = result[c])]_vars

C6_Witness ==
    /\ MaxViews >= 2
    /\ viewState[1] = "disposed" /\ viewState[2] = "disposed"
    /\ badge[1] = 0 /\ view = 2
    /\ \E c \in Callers :
          /\ pc[c] = "done" /\ result[c] = ViewClosedOutcome
          /\ \A d \in Callers \ {c} : pc[d] = "idle"

\* C7: every step that resolves a pending request, by submit, cancel or
\* disposal, leaves the slot empty and the badge of the provider's view at 0;
\* an ask that finds the slot empty is never turned away as busy, and with a
\* view in place it is accepted: it takes the slot.
C7_SlotReusable ==
    [][/\ \A c \in Callers :
             ResolveStep(c) =>
                 /\ pendingRequest = c
                 /\ pendingRequest' = 0
                 /\ view' # 0 /\ badge'[view'] = 0
       /\ \A c \in Callers :
             (InvokeStep(c) /\ pendingRequest = 0) =>
                 /\ brokerResult'[c] # BusyOutcome
                 /\ view # 0 => (pendingRequest' = c /\ pc'[c] = "suspended")]_vars

C7_Witness ==
    \E c, d \in Callers :
        /\ pc[c] = "done" /\ resolveCalls[c] = 1
        /\ pc[d] = "suspended" /\ pendingRequest = d
        /\ c < d

\* C8: the badge of the provider's view is 1 exactly when the slot is occupied
\* and 0 exactly when it is empty.
C8_BadgeMatchesSlot ==
    view # 0 => (badge[view] = (IF pendingRequest # 0 THEN 1 ELSE 0))

\* C9: an ask turned away as busy changes nothing but the new caller's own
\* outcome: slot, badge, pushed messages, notifications and every other
\* invocation stay as they were; and a request that saw such a rejection still
\* resolves with the outcome of its own trigger.
C9_BusyChangesNothing ==
    [][/\ \A c \in Callers :
             (InvokeStep(c) /\ pendingRequest # 0) =>
                 /\ UNCHANGED <<view, pendingRequest, badge, toWebview,
                                fromWebview, notifications, viewState,
                                formHidden, emptyHidden, inputValue,
                                resolveCalls, fallbackCalls>>
                 /\ \A d \in Callers \ {c} :
                       /\ pc'[d] = pc[d]
                       /\ result'[d] = result[d]
                       /\ brokerResult'[d] = brokerResult[d]
       /\ \A c \in Callers :
             (/\ ResolveStep(c)
              /\ \E d \in Callers : d > c /\ result[d] = BusyOutcome) =>
                 /\ pc'[c] = "done"
                 /\ result'[c] = TriggerOutcome]_vars

C9_Witness ==
    \E c, d \in Callers :
        /\ c < d
        /\ pc[d] = "done" /\ result[d] = BusyOutcome
        /\ pc[c] = "done" /\ resolveCalls[c] = 1
        /\ result[c] = [responded |-> TRUE, response |-> <<Quote, Backslash>>]

\* C10: an outcome with responded = true that comes from a webview submission
\* has a non-empty, trimmed response.
C10_SubmittedResponseNonEmpty ==
    \A c \in Callers :
        (pc[c] = "done" /\ resolveCalls[c] = 1 /\ result[c].responded) =>
            /\ result[c].response # <<>>
            /\ result[c].response = Trim(result[c].response)


\* C11 as stated: every returned outcome with responded = false carries one of
\* the diagnostic strings or the empty string.
C11_NotRespondedTexts ==
    \A c \in Callers :
        (pc[c] = "done" /\ ~result[c].responded) =>
            result[c].response \in
                {NotAvailableText, ViewClosedText, BusyText, <<>>}

\* C11, amended: every returned outcome with responded = false carries one of
\* the diagnostic strings, the empty string, or, on the fallback path only,
\* the blank-only text the human submitted as typed.
C11_NotRespondedTextsOrBlankAnswer ==
    \A c \in Callers :
        (pc[c] = "done" /\ ~result[c].responded) =>
            \/ result[c].response \in
                   {NotAvailableText, ViewClosedText, BusyText, <<>>}
            \/ /\ fallbackCalls[c] = 1
               /\ result[c].response # <<>>
               /\ Trim(result[c].response) = <<>>

C11_Witness ==
    \E c, d \in Callers :
        /\ pc[c] = "done" /\ fallbackCalls[c] = 1
        /\ result[c] = [responded |-> FALSE, response |-> <<Blank>>]
        /\ pc[d] = "done" /\ result[d] = ViewClosedOutcome


\* a text with no symbol but blanks
BlankOnly(t) == \A i \in 1..Len(t) : t[i] = Blank

\* C12: the fallback prompt runs its steps in order.  The text entry opens only
\* after the action was pressed; a dismissed alert returns {false, ""} with the
\* text entry never opened; a dismissed text entry returns {false, ""}; a
\* submitted text r returns {responded: r has a non-blank symbol, response: r}.
C12_FallbackProtocol ==
    \A c \in Callers :
        /\ pc[c] \in {"idle", "suspended", "focus", "alert"} =>
              (selection[c] = Unset /\ boxResponse[c] = NotAsked)
        /\ pc[c] = "inputBox" =>
              (selection[c] = ButtonText /\ boxResponse[c] = NotAsked)
        /\ boxResponse[c] # NotAsked =>
              (selection[c] = ButtonText /\ pc[c] = "done")
        /\ selection[c] = NoSelection =>
              /\ pc[c] = "done"
              /\ boxResponse[c] = NotAsked
              /\ result[c] = [responded |-> FALSE, response |-> <<>>]
        /\ (boxResponse[c] # NotAsked /\ ~boxResponse[c].defined) =>
              result[c] = [responded |-> FALSE, response |-> <<>>]
        /\ (boxResponse[c] # NotAsked /\ boxResponse[c].defined) =>
              result[c] = [responded |-> ~BlankOnly(boxResponse[c].value),
                           response |-> boxResponse[c].value]
        /\ selection[c] # Unset => fallbackCalls[c] = 1

C12_Witness ==
    \E c, d \in Callers :
        /\ selection[c] = NoSelection /\ pc[c] = "done"
        /\ boxResponse[c] = NotAsked
        /\ result[c] = [responded |-> FALSE, response |-> <<>>]
        /\ selection[d] = ButtonText /\ pc[d] = "done"
        /\ boxResponse[d] = [defined |-> TRUE,
                             value |-> <<Blank, Quote, Backslash, Blank>>]
        /\ result[d] = [responded |-> TRUE,
                        response |-> <<Blank, Quote, Backslash, Blank>>]


\* the invocations whose question is before the human, waiting for an answer
Waiting == {c \in Callers : pc[c] \in {"suspended", "alert", "inputBox"}}

\* C13 as stated: at most one invocation waits for an answer at any time,
\* on the surface path or in the fallback prompt.
C13_OneQuestionOutstanding == Cardinality(Waiting) <= 1

\* C13, amended: at most one invocation waits for an answer on the surface
\* path at any time, and it is the one that holds the slot; invocations in the
\* fallback prompt are not serialized and may wait beside it and beside each
\* other.
C13_OneSurfaceQuestionOutstanding ==
    /\ Cardinality(Suspended) <= 1
    /\ \A c \in Suspended : pendingRequest = c
    /\ pendingRequest # 0 => pc[pendingRequest] = "suspended"

C13_Witness ==
    \E c, d \in Callers :
        /\ pc[c] = "suspended" /\ pendingRequest = c
        /\ pc[d] = "inputBox"

\* ------------------------------------------------------------------- C14
\* a step in which webview v posts a message to the extension
EmitStep(v) == Len(fromWebview'[v]) > Len(fromWebview[v])

\* a step in which webview v displays a question
DisplayStep(v) == formHidden[v] /\ ~formHidden'[v]

\* C14: the webview emits a submit or a cancel only from a displayed form and
\* the same step clears that form, and a cleared form is displayed again only
\* by handling a showQuestion message: so every displayed question gets at
\* most one signal, and a question whose form was cleared (by a clear message
\* or by an earlier submit or cancel) gets none.
C14_OneSignalPerQuestion ==
    [][\A v \in Views :
          /\ EmitStep(v) =>
                /\ ~formHidden[v] /\ formHidden'[v]
                /\ \E m \in {CancelMsg} \cup {SubmitMsg(Trim(t)) : t \in UserTexts} :
                      fromWebview'[v] = Append(fromWebview[v], m)
          /\ DisplayStep(v) =>
                /\ toWebview[v] # <<>>
                /\ Head(toWebview[v]).type = "showQuestion"
                /\ toWebview'[v] = Tail(toWebview[v])
                /\ fromWebview'[v] = fromWebview[v]]_vars

\* a signal was emitted for the displayed question and its form is cleared
\* while the ask is still pending
C14_Witness ==
    \E v \in Views :
        /\ viewState[v] = "live" /\ pendingRequest # 0
        /\ fromWebview[v] # <<>> /\ formHidden[v]

\* ------------------------------------------------------------------- C15
\* a step in which webview v handles a clear message
ClearStep(v) ==
    /\ viewState[v] = "live" /\ viewState'[v] = "live"
    /\ toWebview[v] # <<>>
    /\ Head(toWebview[v]).type = "clear"
    /\ toWebview'[v] = Tail(toWebview[v])

\* the surface state of webview v
SurfaceState(v) == <<formHidden[v], emptyHidden[v], inputValue[v]>>

\* the surface with no question displayed: form hidden, empty state shown,
\* input empty
NoQuestionState == <<TRUE, FALSE, <<>> >>

\* C15: handling a clear message while no question is displayed leaves the
\* surface state unchanged (form hidden, empty state shown, input empty) and
\* posts nothing to the extension; every handled clear ends in that state, so
\* a second clear changes nothing that the first did not.
C15_ClearIdempotent ==
    [][\A v \in Views :
          ClearStep(v) =>
              /\ SurfaceState(v)' = NoQuestionState
              /\ fromWebview'[v] = fromWebview[v]
              /\ formHidden[v] => SurfaceState(v)' = SurfaceState(v)]_vars

\* two clear messages are about to be handled by a live webview that
\* displays no question
C15_Witness ==
    \E v \in Views :
        /\ viewState[v] = "live" /\ formHidden[v]
        /\ toWebview[v] = <<ClearMsg, ClearMsg>>

\* ------------------------------------------------------------------- C16
\* the paths an invocation may have returned by
Returned == {c \in Callers : pc[c] = "done"}

\* C16: an invocation that has returned (after a busy rejection, a cancel, a
\* closed view, a submit, or a dismissed or answered fallback prompt) returned
\* a text that parses as a JSON object with exactly the members responded and
\* response, holding the values of its final outcome; an invocation that has
\* not returned has produced no result.
C16_PayloadIsOutcome ==
    \A c \in Callers :
        /\ c \in Returned =>
              JsonParse(payload[c]) =
                  [ok |-> TRUE, names |-> << <<"responded">>, <<"response">> >>,
                   first |-> result[c].responded, second |-> result[c].response]
        /\ c \notin Returned => payload[c] = NoPayload

\* two invocations returned: one rejected as busy, the other after a submit
\* of a text with a quote and a backslash
C16_Witness ==
    \E c, d \in Callers :
        /\ pc[c] = "done" /\ result[c] = BusyOutcome
        /\ payload[c] = <<"{", Quote, "responded", Quote, ":", "false", ",",
                          Quote, "response", Quote, ":",
                          Quote, BusyText[1], Quote, "}">>
        /\ pc[d] = "done" /\ resolveCalls[d] = 1
        /\ payload[d] = <<"{", Quote, "responded", Quote, ":", "true", ",",
                          Quote, "response", Quote, ":",
                          Quote, Backslash, Quote, Backslash, Backslash, Quote, "}">>

\* ------------------------------------------------------------------- C17
\* C17: the resolve callback of an ask is called at most once, and only while
\* the ask is suspended in the slot; a submit, cancel or disposal event handled
\* while the slot is empty changes neither the slot nor any badge and gives no
\* outcome to any invocation.
C17_ResolvedOnce ==
    /\ [](\A c \in Callers : resolveCalls[c] <= 1)
    /\ [][\A c \in Callers :
             ResolveStep(c) => (pendingRequest = c /\ pc[c] = "suspended"
                                /\ pendingRequest' = 0)]_vars
    /\ [][\A v \in Views :
             ((HostReceiveStep(v) \/ DisposeStep(v)) /\ pendingRequest = 0) =>
                 UNCHANGED <<pendingRequest, badge, pc, brokerResult, result,
                             payload, resolveCalls, fallbackCalls>>]_vars

\* an ask was resolved by a submit on the first view, and that view was
\* disposed afterwards, with the slot empty
C17_Witness ==
    \E c \in Callers :
        /\ resolveCalls[c] = 1 /\ pc[c] = "done" /\ result[c].responded
        /\ \A d \in Callers \ {c} : pc[d] = "idle"
        /\ pendingRequest = 0
        /\ viewState[1] = "disposed"
        /\ \A v \in Views \ {1} : viewState[v] = "unresolved"

\* ------------------------------------------------------------------- C18
\* the host handles a submit or a cancel of webview v, or disposes view v
TriggerStep(v) ==
    \/ DisposeStep(v)
    \/ HostReceiveStep(v) /\ Head(fromWebview[v]).type \in {"submit", "cancel"}

\* C18: an occupied slot changes only in a step that handles a webview
\* submit, a webview cancel or a view disposal, and then it becomes empty and
\* its request is resolved; a suspended ask leaves its suspension only in such
\* a step.  No other step (a cancelled token, a rejected ask, a clear, a
\* showQuestion delivery, an attached view) resolves or drops the request.
C18_OnlyTriggersEmptySlot ==
    /\ [][(pendingRequest # 0 /\ pendingRequest' # pendingRequest) =>
             /\ pendingRequest' = 0
             /\ ResolveStep(pendingRequest)
             /\ \E v \in Views : TriggerStep(v)]_vars
    /\ [][\A c \in Callers :
             (pc[c] = "suspended" /\ pc'[c] # "suspended") =>
                 /\ pendingRequest = c
                 /\ \E v \in Views : TriggerStep(v)]_vars

\* a request is still pending after its token was cancelled, another ask was
\* rejected as busy, and a clear hid its question
C18_Witness ==
    \E c, d \in Callers :
        /\ pendingRequest = c /\ pc[c] = "suspended"
        /\ cancellationRequested[c]
        /\ pc[d] = "done" /\ result[d] = BusyOutcome
        /\ view # 0 /\ viewState[view] = "live"
        /\ formHidden[view] /\ toWebview[view] = <<>> /\ fromWebview[view] = <<>>

\* ------------------------------------------------------------------- C19
\* invocation c is accepted by the broker in this step
AcceptStep(c) == InvokeStep(c) /\ pc'[c] = "suspended"

\* the showQuestion messages waiting in the queue of webview v
ShowQuestions(q) == SelectSeq(q, LAMBDA m : m.type = "showQuestion")

\* C19: the step that accepts an ask occupies the empty slot, posts exactly
\* one showQuestion with the ask's question and title to the view, sets the
\* view's badge to 1, reveals the view preserving focus and raises one
\* notification, in that order; no other step posts a showQuestion, no other
\* ask is suspended when one is posted, and no queue ever holds two.
C19_AcceptEffects ==
    /\ [][\A c \in Callers :
             AcceptStep(c) =>
                 /\ pendingRequest = 0 /\ pendingRequest' = c
                 /\ \A d \in Callers \ {c} : pc[d] # "suspended"
                 /\ acceptCalls' = <<"_pendingRequest = { resolve }",
                                     "postMessage showQuestion", "_setBadge(1)",
                                     "show(preserveFocus)",
                                     "showInformationMessage">>
                 /\ view # 0 /\ badge'[view] = 1
                 /\ notifications' = notifications + 1
                 /\ \E in \in Inputs :
                       toWebview' = PostMessage(
                           ShowQuestionMsg(in.question, ToolTitle(in)))]_vars
    /\ [][\A v \in Views :
             Len(ShowQuestions(toWebview'[v])) > Len(ShowQuestions(toWebview[v])) =>
                 /\ \E c \in Callers : AcceptStep(c)
                 /\ v = view
                 /\ Len(toWebview'[v]) = Len(toWebview[v]) + 1]_vars
    /\ [](\A v \in Views : Len(ShowQuestions(toWebview[v])) <= 1)

\* a second ask was accepted after the first was resolved, and its question
\* waits in the queue of the live view
C19_Witness ==
    \E c, d \in Callers :
        /\ pc[c] = "done" /\ resolveCalls[c] = 1
        /\ pendingRequest = d /\ pc[d] = "suspended"
        /\ view # 0 /\ viewState[view] = "live" /\ badge[view] = 1
        /\ Len(ShowQuestions(toWebview[view])) = 1
        /\ notifications = 2
        /\ acceptCalls = AcceptCalls

\* ------------------------------------------------------------------- C20
\* C20: the request in the slot is resolved only by an event of the view its
\* question was posted to, and a submit or cancel that resolves it comes from
\* a webview that displayed its question.
C20_ResolvedByOwnEvent ==
    [][\A c \in Callers :
          ResolveStep(c) =>
              \E v \in Views :
                  /\ TriggerStep(v)
                  /\ v = acceptedAsk.view
                  /\ HostReceiveStep(v) =>
                        questionContent[v] = RenderMarkdown(acceptedAsk.question)]_vars

\* ------------------------------------------------------------------- C21
\* the host attaches view v in this step
AttachStep(v) == viewState[v] = "unresolved" /\ viewState'[v] = "live"

\* C21: a step that attaches a view while a request is pending leaves the
\* request in the slot, neither resolved nor dropped, and posts nothing to any
\* webview; and whenever a request is pending, a submit, a cancel or a
\* disposal handled for any view, the new one included, resolves it.
C21_AttachKeepsRequest ==
    /\ [][\A v \in Views :
             (AttachStep(v) /\ pendingRequest # 0) =>
                 /\ view' = v
                 /\ pendingRequest' = pendingRequest
                 /\ UNCHANGED <<pc, brokerResult, result, payload, resolveCalls>>
                 /\ UNCHANGED <<toWebview, badge, notifications>>]_vars
    /\ [][\A v \in Views :
             (TriggerStep(v) /\ pendingRequest # 0) =>
                 /\ ResolveStep(pendingRequest)
                 /\ pendingRequest' = 0
                 /\ pc'[pendingRequest] = "done"]_vars

\* the request accepted on the first view was still in the slot when the
\* second view was attached, and the disposal of the second view resolved it
C21_Witness ==
    \E c \in Callers :
        /\ acceptedAsk.view = 1
        /\ viewState[1] = "disposed" /\ viewState[2] = "disposed"
        /\ pc[c] = "done" /\ resolveCalls[c] = 1
        /\ result[c] = ViewClosedOutcome
        /\ badge[1] = 1
        /\ \A d \in Callers \ {c} : pc[d] = "idle"

\* ------------------------------------------------------------------- C22
\* C22: whenever the request form of a live webview is visible, the slot is
\* occupied by the ask whose question the form shows; and whenever a submit or
\* a cancel of a live webview waits to be handled, the slot is occupied, so
\* the broker never discards it.
C22_VisibleFormHasRequest ==
    \A v \in Views :
        viewState[v] = "live" =>
            /\ ~formHidden[v] =>
                  /\ pendingRequest # 0 /\ pc[pendingRequest] = "suspended"
                  /\ acceptedAsk.view = v
                  /\ questionContent[v] = RenderMarkdown(acceptedAsk.question)
            /\ fromWebview[v] # <<>> =>
                  /\ pendingRequest # 0 /\ pc[pendingRequest] = "suspended"
                  /\ Len(fromWebview[v]) = 1

\* the form is visible with a text typed into it, and its ask is in the slot
C22_Witness ==
    \E v \in Views :
        /\ viewState[v] = "live" /\ ~formHidden[v]
        /\ inputValue[v] = <<Blank, Quote, Backslash, Blank>>
        /\ pendingRequest # 0 /\ pc[pendingRequest] = "suspended"

=============================================================================
